---- MODULE Spec2Model ----
(***************************************************************************)
(* Model of gps_socat.py: GpsServiceManager (start/stop sequencing of the  *)
(* socat bridge and the gps_dbus consumer, the DBus satellite-count probe, *)
(* the watchdog timer callback) and the main program (signal handlers and  *)
(* the GLib main loop).                                                    *)
(*                                                                         *)
(* Time is in whole seconds.  Every handler is one action; the external    *)
(* calls a handler makes are recorded, in order, in `trace`.               *)
(***************************************************************************)
EXTENDS Integers, Sequences, FiniteSets, TLC

\* ---------------------------------------------------------------- bounds
\* Ticks are taken only while the timer's next expiry is at most MaxTime.
MaxTime == 155
\* Largest satellite count the probe replies with.
MaxSat == 1
\* The ticks and warnings of an unhealthy streak are counted up to MaxStreak.
MaxStreak == 2

\* ------------------------------------------------------ program constants
\* Python's None, for an Optional[int] (satellite count, timestamps, codes).
NONE == -1
\* time.sleep(2) between the socat launch and the gps_dbus launch.
SETTLE_DELAY == 2
\* subprocess.run(socat_cmd, ..., timeout=5)
SOCAT_TIMEOUT == 5
\* self.gps_dbus_process.wait(timeout=5)
TERM_TIMEOUT == 5
\* proc.communicate(timeout=5)
PROBE_TIMEOUT == 5

\* config.ini, [MONITORING]: the (max_idle_time_seconds, watchdog_check_interval)
\* pairs the model is run with.
Configs ==
  { [max_idle_time_seconds |-> 120, watchdog_check_interval |-> 30],
    [max_idle_time_seconds |-> 20,  watchdog_check_interval |-> 30] }

\* ------------------------------------------------------------ environment
\* What dbus-send answers: it cannot be spawned/reached ("exception"), it
\* does not answer within the timeout ("timeout"), its output has no 'byte'
\* or no integer after it ("unparsable"), or the output holds `byte <value>`.
Replies ==
  { [kind |-> k, value |-> 0] : k \in {"exception", "timeout", "unparsable"} }
  \cup { [kind |-> "byte", value |-> v] : v \in 0..MaxSat }

\* The outcomes of the external calls of one handler run.
\*   termOK  : gps_dbus exits within the wait after terminate()
\*   pkillOK : the pkill sweep runs (FALSE: it raises, e.g. not installed)
\*   socat   : the socat launch
\*   gps     : the gps_dbus Popen
\*   reply   : the dbus-send answer
Envs ==
  [ termOK : BOOLEAN, pkillOK : BOOLEAN,
    socat : {"ok", "error", "timeout"}, gps : {"ok", "error"},
    reply : Replies ]

\* Every external call succeeds; the probe reads no satellites.
Quiet ==
  [ termOK |-> TRUE, pkillOK |-> TRUE, socat |-> "ok", gps |-> "ok",
    reply |-> [kind |-> "byte", value |-> 0] ]

VARIABLES
  pc,                     \* "boot" | "running" | "exited"
  exit_code,              \* NONE while the process lives
  config,                 \* self.config (the monitoring keys)
  socat_process_started,  \* self.socat_process_started
  gps_dbus_process,       \* self.gps_dbus_process: "None" | "Popen"
  last_good_data_time,    \* self.last_good_data_time
  gps_alive,              \* the tracked gps_dbus has not exited (poll() is None)
  socat_alive,            \* a forked socat child is running
  clock,                  \* time.time() when the last handler returned
  timer_armed,            \* the GLib timeout source exists
  next_tick,              \* when the timeout source next fires
  is_running,             \* GMainLoop.is_running of each loop object
  signalled,              \* a termination signal has been handled
  trace,                  \* external calls of the last handler, in order
  obs,                    \* what the last handler observed and decided
  hist                    \* bookkeeping over the whole run, for the properties

vars == << pc, exit_code, config, socat_process_started, gps_dbus_process,
           last_good_data_time, gps_alive, socat_alive, clock, timer_armed,
           next_tick, is_running, signalled, trace, obs, hist >>

\* ------------------------------------------------------- manager methods
\* The manager's fields and what it touches, threaded through a handler.
\*   now : time.time() at this point of the handler;  ret : last return value
Cur ==
  [ socat_process_started |-> socat_process_started,
    gps_dbus_process      |-> gps_dbus_process,
    last_good_data_time   |-> last_good_data_time,
    gps_alive             |-> gps_alive,
    socat_alive           |-> socat_alive,
    now                   |-> clock,
    trace                 |-> << >>,
    ret                   |-> TRUE,
    callback              |-> FALSE,
    path                  |-> "none",
    count                 |-> NONE,
    elapsed               |-> NONE ]

\* (variant: the tracked process is signalled whether or not it is alive)
AlwaysTerminate_stop_services(s, e) ==
  [ s EXCEPT !.trace = @ \o << "stop_services", "terminate", "pkill" >>,
             !.gps_alive = FALSE,
             !.socat_alive = IF e.pkillOK THEN FALSE ELSE @,
             !.socat_process_started = FALSE,
             !.gps_dbus_process = "None" ]

\* (variant: the consumer is stopped, the bridge is not swept)
NoSweep_stop_services(s, e) ==
  LET live == s.gps_dbus_process # "None" /\ s.gps_alive
      sig  == IF ~live THEN << >>
              ELSE IF e.termOK THEN << "terminate" >>
              ELSE << "terminate", "kill" >>
  IN [ s EXCEPT !.trace = @ \o << "stop_services" >> \o sig,
                !.now = @ + (IF live /\ ~e.termOK THEN TERM_TIMEOUT ELSE 0),
                !.gps_alive = FALSE,
                !.socat_process_started = FALSE,
                !.gps_dbus_process = "None" ]

\* (variant: the flag is cleared, the handle is kept)
KeepHandle_stop_services(s, e) ==
  LET live == s.gps_dbus_process # "None" /\ s.gps_alive
      sig  == IF ~live THEN << >>
              ELSE IF e.termOK THEN << "terminate" >>
              ELSE << "terminate", "kill" >>
  IN [ s EXCEPT !.trace = @ \o << "stop_services" >> \o sig \o << "pkill" >>,
                !.now = @ + (IF live /\ ~e.termOK THEN TERM_TIMEOUT ELSE 0),
                !.gps_alive = FALSE,
                !.socat_alive = IF e.pkillOK THEN FALSE ELSE @,
                !.socat_process_started = FALSE ]

\* _stop_services
stop_services(s, e) ==
  LET live == s.gps_dbus_process # "None" /\ s.gps_alive
      sig  == IF ~live THEN << >>
              ELSE IF e.termOK THEN << "terminate" >>
              ELSE << "terminate", "kill" >>
  IN [ s EXCEPT !.trace = @ \o << "stop_services" >> \o sig \o << "pkill" >>,
                !.now = @ + (IF live /\ ~e.termOK THEN TERM_TIMEOUT ELSE 0),
                !.gps_alive = FALSE,
                !.socat_alive = IF e.pkillOK THEN FALSE ELSE @,
                !.socat_process_started = FALSE,
                !.gps_dbus_process = "None" ]

\* (variant: the failure is returned without tearing the bridge down)
NoTeardown_gps_launch_failed(s, e) ==
  [ s EXCEPT !.ret = FALSE ]

\* (variant: the bridge is swept but stays marked as started)
FlagKept_gps_launch_failed(s, e) ==
  [ stop_services(s, e) EXCEPT !.ret = FALSE, !.socat_process_started = TRUE ]

\* _start_services, lines 138-141: the gps_dbus launch raised
gps_launch_failed(s, e) ==
  [ stop_services(s, e) EXCEPT !.ret = FALSE ]

\* (variant: the watchdog timer is not reset by a start)
NoReset_services_started(s) ==
  [ s EXCEPT !.gps_dbus_process = "Popen", !.gps_alive = TRUE, !.ret = TRUE ]

\* (variant: the timer is reset to the time the bridge was launched)
EarlyReset_services_started(s) ==
  [ s EXCEPT !.gps_dbus_process = "Popen", !.gps_alive = TRUE,
             !.last_good_data_time = s.now - SETTLE_DELAY, !.ret = TRUE ]

\* _start_services, lines 137-150: both launched; the watchdog timer is reset
services_started(s) ==
  [ s EXCEPT !.gps_dbus_process = "Popen", !.gps_alive = TRUE,
             !.last_good_data_time = s.now, !.ret = TRUE ]

\* (variant: no settle delay)
NoSettle_socat_launched(s) ==
  [ s EXCEPT !.socat_process_started = TRUE, !.socat_alive = TRUE ]

\* _start_services, lines 120-126: socat launched; wait for the TTY link
socat_launched(s) ==
  [ s EXCEPT !.socat_process_started = TRUE, !.socat_alive = TRUE,
             !.now = @ + SETTLE_DELAY, !.trace = Append(@, "sleep") ]

\* _start_services
start_services(s, e) ==
  LET s0 == stop_services(s, e)
      s1 == [ s0 EXCEPT !.trace = Append(@, "launch_socat") ]
  IN IF e.socat # "ok"
     THEN [ s1 EXCEPT !.now = @ + (IF e.socat = "timeout" THEN SOCAT_TIMEOUT ELSE 0),
                      !.ret = FALSE ]
     ELSE LET s2 == socat_launched(s1)
              s3 == [ s2 EXCEPT !.trace = Append(@, "launch_gps_dbus") ]
          IN IF e.gps # "ok" THEN gps_launch_failed(s3, e)
             ELSE services_started(s3)

\* _get_dbus_satellite_count: the integer after 'byte', or None
get_dbus_satellite_count(reply) ==
  IF reply.kind = "byte" THEN reply.value ELSE NONE

\* how long _get_dbus_satellite_count takes
probe_duration(reply) ==
  IF reply.kind = "timeout" THEN PROBE_TIMEOUT ELSE 0

\* (variant: a failed read counts as good data)
NoneIsGood_good_data(count) ==
  count # 0

\* line 239: satellite_count is not None and satellite_count > 0
good_data(count) ==
  count # NONE /\ count > 0

\* (variant: good data does not reset the timer)
NoReset_good_data_time(s) ==
  s.last_good_data_time

\* (variant: good data takes back only half of the idle time)
HalfDecay_good_data_time(s) ==
  (s.last_good_data_time + s.now) \div 2

\* line 241: self.last_good_data_time = time.time()
good_data_time(s) ==
  s.now

\* (variant: the idle test is not strict)
AtLeast_idle_too_long(elapsed, limit) ==
  elapsed >= limit

\* line 249: time_since_last_fix > max_idle
idle_too_long(elapsed, limit) ==
  elapsed > limit

\* line 223: not self.socat_process_started
bridge_not_started(s) ==
  ~s.socat_process_started

\* (variant: the gps_dbus process is never checked)
Never_consumer_dead(s) ==
  FALSE

\* line 229: self.gps_dbus_process is None or its poll() is not None
consumer_dead(s) ==
  s.gps_dbus_process = "None" \/ ~s.gps_alive

\* (variant: the warning is not logged)
NoWarn_idle_warning(s) ==
  s

\* line 247: logger.warning("No valid satellite count ...")
idle_warning(s) ==
  [ s EXCEPT !.trace = Append(@, "warn") ]

\* _watchdog_monitor, lines 236-252: the DBus data check
check_data(s, e) ==
  LET count == get_dbus_satellite_count(e.reply)
      s1 == [ s EXCEPT !.trace = Append(@, "probe"),
                       !.now = @ + probe_duration(e.reply),
                       !.count = count ]
  IN IF good_data(count)
     THEN [ s1 EXCEPT !.last_good_data_time = good_data_time(s1),
                      !.path = "healthy" ]
     ELSE LET time_since_last_fix == s1.now - s1.last_good_data_time
              s2 == idle_warning([ s1 EXCEPT !.elapsed = time_since_last_fix ])
          IN IF idle_too_long(time_since_last_fix, config.max_idle_time_seconds)
             THEN [ start_services(stop_services(s2, e), e)
                      EXCEPT !.path = "idle_expired" ]
             ELSE [ s2 EXCEPT !.path = "idle_ok" ]

\* (variant: the data check runs before the liveness checks)
ProbeFirst_watchdog_monitor(s, e) ==
  check_data(s, e)

\* (variant: a start that failed is tried once more in the same tick)
Retry_watchdog_monitor(s, e) ==
  LET r == IF bridge_not_started(s)
           THEN [ start_services(stop_services(s, e), e) EXCEPT !.path = "not_started" ]
           ELSE IF consumer_dead(s)
           THEN [ start_services(stop_services(s, e), e) EXCEPT !.path = "died" ]
           ELSE check_data(s, e)
  IN IF r.path \notin { "healthy", "idle_ok" } /\ ~r.ret THEN start_services(r, e) ELSE r

\* (variant: the callback returns what the start returned)
StartResult_watchdog_monitor(s, e) ==
  LET r == IF bridge_not_started(s)
           THEN [ start_services(stop_services(s, e), e) EXCEPT !.path = "not_started" ]
           ELSE IF consumer_dead(s)
           THEN [ start_services(stop_services(s, e), e) EXCEPT !.path = "died" ]
           ELSE check_data(s, e)
  IN [ r EXCEPT !.callback = r.ret ]

\* _watchdog_monitor; callback is what it returns to GLib (True: keep the
\* timer), lines 227, 233 and 254
watchdog_monitor(s, e) ==
  IF bridge_not_started(s)
  THEN [ start_services(stop_services(s, e), e)
           EXCEPT !.path = "not_started", !.callback = TRUE ]
  ELSE IF consumer_dead(s)
  THEN [ start_services(stop_services(s, e), e)
           EXCEPT !.path = "died", !.callback = TRUE ]
  ELSE [ check_data(s, e) EXCEPT !.callback = TRUE ]

\* -------------------------------------------- the outcomes a handler meets
\* The outcomes that _start_services, run on s after the reply e0.reply, can
\* meet: an outcome of a call that is not made is left as in Quiet.
StartEnvs(e0) ==
  { e \in Envs : /\ e.reply = e0.reply
                 /\ e.termOK
                 /\ (e.socat # "ok" => e.gps = "ok") }

\* The outcomes _watchdog_monitor can meet on s.
TickEnvs(s) ==
  LET probing == ~bridge_not_started(s) /\ ~consumer_dead(s)
      live == s.gps_dbus_process # "None" /\ s.gps_alive
      first == IF probing THEN { [ Quiet EXCEPT !.reply = y ] : y \in Replies }
               ELSE { Quiet }
      restarts(e0) ==
        ~probing \/ ( /\ ~good_data(get_dbus_satellite_count(e0.reply))
                      /\ idle_too_long(s.now + probe_duration(e0.reply)
                                         - s.last_good_data_time,
                                       config.max_idle_time_seconds) )
      rest(e0) ==
        IF restarts(e0)
        THEN { [ e EXCEPT !.termOK = t ] : e \in StartEnvs(e0),
                                           t \in (IF live THEN BOOLEAN ELSE {TRUE}) }
        ELSE { e0 }
  IN UNION { rest(e0) : e0 \in first }

\* ------------------------------------------------------------ main program
\* The loop objects: the one main runs, and the one signal_handler creates.
Loops == { "mainloop", "handler_loop" }

\* signal_handler: GLib.MainLoop().quit() quits a loop object created there
signal_handler(running) ==
  [ running EXCEPT !["handler_loop"] = FALSE ]

\* (variant: a failed initial start aborts)
AbortOnFailure_construct_continues(started_ok) ==
  started_ok

\* __init__, lines 76-78: the result of _start_services() is not looked at
construct_continues(started_ok) ==
  TRUE

Max(a, b) == IF a >= b THEN a ELSE b

Range(q) == { q[i] : i \in 1..Len(q) }

Count(q, x) == Cardinality({ i \in 1..Len(q) : q[i] = x })

\* n, counted no further than cap
UpTo(n, cap) == IF n >= cap THEN cap ELSE n

\* The reference tracker that C8 compares tick with (GracePeriodTracker.observe
\* of the design, not code of gps_socat.py): unhealthy_since is set by the
\* first non-healthy reading after a healthy one and cleared by a healthy one.
observe(unhealthy_since, healthy, now, grace_duration) ==
  IF healthy
  THEN [ unhealthy_since |-> NONE,
         decision |-> IF unhealthy_since # NONE THEN "JustRecovered" ELSE "Continue" ]
  ELSE IF unhealthy_since = NONE
  THEN [ unhealthy_since |-> now, decision |-> "Continue" ]
  ELSE [ unhealthy_since |-> unhealthy_since,
         decision |-> IF now - unhealthy_since > grace_duration
                      THEN "GracePeriodExpired" ELSE "Continue" ]

ObsInit ==
  [ op |-> "none", path |-> "none", reply |-> "none", count |-> NONE,
    elapsed |-> NONE, at |-> NONE, ref_elapsed |-> NONE, ref_kind |-> "none",
    pre_started |-> FALSE, pre_tracked |-> FALSE, pre_gps_alive |-> FALSE,
    pre_socat_alive |-> FALSE, pre_lgdt |-> NONE,
    probed |-> FALSE, restarted |-> FALSE, start_ok |-> FALSE,
    healthy |-> FALSE, ref_decision |-> "none", again |-> FALSE,
    after_signal |-> FALSE, launches_ok |-> FALSE,
    streak_ticks |-> 0, streak_warnings |-> 0 ]

\* ref_last_good / ref_kind: when, and by what ("init", "start", "healthy"),
\*   the time of last good data was last due to be set
\* streak_ticks / streak_warnings: the non-healthy readings of the current
\*   unhealthy streak and the warnings logged in it (counted up to MaxStreak)
\* unhealthy_since: the design's tracker state
\* expired_no_healthy: an idle restart happened and no healthy reading since
HistInit ==
  [ init_start |-> "none", ref_last_good |-> NONE, ref_kind |-> "none",
    unhealthy_since |-> NONE, expired_no_healthy |-> FALSE,
    streak_ticks |-> 0, streak_warnings |-> 0 ]

Init ==
  /\ pc = "boot"
  /\ exit_code = NONE
  /\ config \in Configs
  /\ socat_process_started = FALSE
  /\ gps_dbus_process = "None"
  /\ last_good_data_time = 0
  /\ gps_alive = FALSE
  /\ socat_alive = FALSE
  /\ clock = 0
  /\ timer_armed = FALSE
  /\ next_tick = 0
  /\ is_running = [ l \in Loops |-> FALSE ]
  /\ signalled = FALSE
  /\ trace = << >>
  /\ obs = ObsInit
  /\ hist = HistInit

\* sys.exit(1) out of load_config or __init__
Abort ==
  /\ pc' = "exited"
  /\ exit_code' = 1
  /\ UNCHANGED << socat_process_started, gps_dbus_process, last_good_data_time,
                  gps_alive, socat_alive, clock, timer_armed, next_tick,
                  is_running, trace >>

\* __main__ up to mainloop.run(): GpsServiceManager() (load_config,
\* _install_socat, _start_services, timeout_add_seconds), then the loop runs.
Construct ==
  /\ pc = "boot"
  /\ UNCHANGED << config, signalled >>
  /\ \E cfgOK \in BOOLEAN, installOK \in BOOLEAN, e \in StartEnvs(Quiet) :
     \E r \in { start_services([ Cur EXCEPT !.last_good_data_time = clock ], e) } :
       LET outcome == IF r.ret THEN "ok"
                      ELSE IF e.socat # "ok" THEN "socat_failed" ELSE "gps_failed"
       IN IF ~cfgOK \/ ~installOK
          THEN /\ Abort
               /\ obs' = [ ObsInit EXCEPT !.op = "abort" ]
               /\ hist' = hist
          ELSE /\ obs' = [ ObsInit EXCEPT !.op = "construct", !.start_ok = r.ret,
                                          !.restarted = TRUE, !.at = r.now ]
               /\ hist' = [ hist EXCEPT !.init_start = outcome,
                                        !.ref_last_good = IF r.ret THEN r.now ELSE clock,
                                        !.ref_kind = IF r.ret THEN "start" ELSE "init" ]
               /\ socat_process_started' = r.socat_process_started
               /\ gps_dbus_process' = r.gps_dbus_process
               /\ last_good_data_time' = r.last_good_data_time
               /\ gps_alive' = r.gps_alive
               /\ socat_alive' = r.socat_alive
               /\ clock' = r.now
               /\ trace' = r.trace
               /\ IF construct_continues(r.ret)
                  THEN /\ pc' = "running"
                       /\ exit_code' = exit_code
                       /\ timer_armed' = TRUE
                       /\ next_tick' = r.now + config.watchdog_check_interval
                       /\ is_running' = [ is_running EXCEPT !["mainloop"] = TRUE ]
                  ELSE /\ pc' = "exited"
                       /\ exit_code' = 1
                       /\ UNCHANGED << timer_armed, next_tick, is_running >>

\* The timeout source fires: _watchdog_monitor runs, returns True, and the
\* source is re-armed one interval after this dispatch.
Tick ==
  /\ pc = "running"
  /\ timer_armed
  /\ is_running["mainloop"]
  /\ next_tick <= MaxTime
  /\ UNCHANGED << pc, exit_code, config, is_running, signalled >>
  /\ \E e \in TickEnvs([ Cur EXCEPT !.now = next_tick ]) :
     \E r \in { watchdog_monitor([ Cur EXCEPT !.now = next_tick ], e) } :
       LET probed == "probe" \in Range(r.trace)
           restarted == "launch_socat" \in Range(r.trace)
           healthy == probed /\ e.reply.kind = "byte" /\ e.reply.value > 0
           at == next_tick + (IF probed THEN probe_duration(e.reply) ELSE 0)
           expired == probed /\ restarted
           warned == Count(r.trace, "warn")
           ticks_now == IF probed /\ ~healthy
                        THEN UpTo(hist.streak_ticks + 1, MaxStreak) ELSE 0
           warnings_now == IF probed /\ ~healthy
                           THEN UpTo(hist.streak_warnings + warned, MaxStreak)
                           ELSE UpTo(warned, MaxStreak)
           ref == IF probed
                  THEN observe(hist.unhealthy_since, healthy, at,
                               config.max_idle_time_seconds)
                  ELSE [ unhealthy_since |-> hist.unhealthy_since, decision |-> "none" ]
       IN /\ socat_process_started' = r.socat_process_started
          /\ gps_dbus_process' = r.gps_dbus_process
          /\ last_good_data_time' = r.last_good_data_time
          /\ gps_alive' = r.gps_alive
          /\ socat_alive' = r.socat_alive
          /\ clock' = r.now
          /\ trace' = r.trace
          /\ timer_armed' = r.callback
          /\ next_tick' = Max(next_tick + config.watchdog_check_interval, r.now)
          /\ obs' = [ op |-> "tick", path |-> r.path, reply |-> e.reply.kind,
                      count |-> r.count, elapsed |-> r.elapsed, at |-> at,
                      ref_elapsed |-> at - hist.ref_last_good,
                      ref_kind |-> hist.ref_kind,
                      pre_started |-> socat_process_started,
                      pre_tracked |-> gps_dbus_process # "None",
                      pre_gps_alive |-> gps_alive,
                      pre_socat_alive |-> socat_alive,
                      pre_lgdt |-> last_good_data_time,
                      probed |-> probed, restarted |-> restarted,
                      start_ok |-> restarted /\ r.ret,
                      healthy |-> healthy,
                      ref_decision |-> ref.decision,
                      again |-> expired /\ hist.expired_no_healthy,
                      after_signal |-> signalled,
                      launches_ok |-> restarted /\ e.socat = "ok" /\ e.gps = "ok",
                      streak_ticks |-> ticks_now,
                      streak_warnings |-> warnings_now ]
          /\ hist' = [ hist EXCEPT
                 !.streak_ticks = IF restarted \/ healthy THEN 0 ELSE ticks_now,
                 !.streak_warnings = IF restarted \/ healthy THEN 0 ELSE warnings_now,
                 !.ref_last_good = IF healthy THEN at
                                   ELSE IF restarted /\ r.ret THEN r.now ELSE @,
                 !.ref_kind = IF healthy THEN "healthy"
                              ELSE IF restarted /\ r.ret THEN "start" ELSE @,
                 !.unhealthy_since = IF restarted THEN NONE ELSE ref.unhealthy_since,
                 !.expired_no_healthy = IF expired THEN TRUE
                                        ELSE IF healthy THEN FALSE ELSE @ ]

\* The tracked gps_dbus process exits on its own.
GpsDbusExits ==
  /\ pc = "running"
  /\ gps_dbus_process = "Popen"
  /\ gps_alive
  /\ gps_alive' = FALSE
  /\ UNCHANGED << pc, exit_code, config, socat_process_started, gps_dbus_process,
                  last_good_data_time, socat_alive, clock, timer_armed, next_tick,
                  is_running, signalled, trace, obs, hist >>

\* The forked socat child exits on its own (e.g. the TCP peer goes away).
SocatExits ==
  /\ pc = "running"
  /\ socat_alive
  /\ socat_alive' = FALSE
  /\ UNCHANGED << pc, exit_code, config, socat_process_started, gps_dbus_process,
                  last_good_data_time, gps_alive, clock, timer_armed, next_tick,
                  is_running, signalled, trace, obs, hist >>

\* SIGTERM or SIGINT arrives while mainloop.run() is running: signal_handler.
Signal ==
  /\ pc = "running"
  /\ is_running["mainloop"]
  /\ signalled' = TRUE
  /\ is_running' = signal_handler(is_running)
  /\ UNCHANGED << pc, exit_code, config, socat_process_started, gps_dbus_process,
                  last_good_data_time, gps_alive, socat_alive, clock, timer_armed,
                  next_tick, trace, obs, hist >>

\* The outcomes _stop_services can meet when called on s from __main__.
StopEnvs(s) ==
  { [ Quiet EXCEPT !.termOK = t, !.pkillOK = k ] :
      t \in (IF s.gps_dbus_process # "None" /\ s.gps_alive THEN BOOLEAN ELSE {TRUE}),
      k \in BOOLEAN }

\* __main__, lines 273-279: mainloop.run() raises an Exception; it is logged,
\* manager._stop_services() runs and the script runs off its end (status 0).  (No action returns
\* from mainloop.run() normally: nothing quits the loop that main runs.)
MainLoopRaises ==
  /\ pc = "running"
  /\ is_running["mainloop"]
  /\ \E e \in StopEnvs(Cur) :
     \E r \in { stop_services(Cur, e) } :
       /\ socat_process_started' = r.socat_process_started
       /\ gps_dbus_process' = r.gps_dbus_process
       /\ last_good_data_time' = r.last_good_data_time
       /\ gps_alive' = r.gps_alive
       /\ socat_alive' = r.socat_alive
       /\ clock' = r.now
       /\ trace' = r.trace
  /\ pc' = "exited"
  /\ exit_code' = 0
  /\ timer_armed' = FALSE
  /\ is_running' = [ is_running EXCEPT !["mainloop"] = FALSE ]
  /\ obs' = [ ObsInit EXCEPT !.op = "loop_error",
                             !.pre_started = socat_process_started,
                             !.pre_tracked = gps_dbus_process # "None",
                             !.pre_gps_alive = gps_alive,
                             !.pre_socat_alive = socat_alive,
                             !.pre_lgdt = last_good_data_time,
                             !.after_signal = signalled ]
  /\ UNCHANGED << config, next_tick, signalled, hist >>

Next ==
  \/ Construct
  \/ Tick
  \/ GpsDbusExits
  \/ SocatExits
  \/ Signal
  \/ MainLoopRaises

Spec == Init /\ [][Next]_vars

\* ------------------------------------------------------------- properties
ScenarioA == [ max_idle_time_seconds |-> 120, watchdog_check_interval |-> 30 ]

max_idle == config.max_idle_time_seconds

\* the first position of x in q (0 when absent)
Pos(q, x) ==
  IF x \in Range(q) THEN CHOOSE i \in 1..Len(q) : q[i] = x /\ \A j \in 1..(i-1) : q[j] # x
  ELSE 0

\* The last handler was a tick whose liveness check had a dead process to see.
TickSawDead ==
  obs.op = "tick" /\ (~obs.pre_started \/ ~obs.pre_tracked \/ ~obs.pre_gps_alive)

\* The last handler was a tick that probed and read no good data.
TickReadBad ==
  obs.op = "tick" /\ obs.probed /\ ~obs.healthy

\* C1 (as claimed): scenario A, max_idle 120 and interval 30, the consumer
\* alive and the probe non-healthy: a tick at elapsed <= 120 restarts nothing,
\* and a tick past 120 (elapsed 150) issues exactly one stop of the services
\* and one start.
C1_OneStopOneStart ==
  (config = ScenarioA /\ TickReadBad) =>
     IF obs.ref_elapsed <= 120
     THEN Count(trace, "stop_services") = 0 /\ Count(trace, "launch_socat") = 0
     ELSE obs.ref_elapsed = 150 =>
            Count(trace, "stop_services") = 1 /\ Count(trace, "launch_socat") = 1

\* C1 (amended): scenario A: a tick at elapsed <= 120 restarts nothing; a tick
\* past 120 makes exactly one start attempt and terminates the consumer once,
\* but runs the stop routine twice before the launch (the watchdog's own stop
\* and the one _start_services begins with), and a third time when the
\* gps_dbus launch fails.
C1_OneRestartTwoStops ==
  (config = ScenarioA /\ TickReadBad) =>
     IF obs.ref_elapsed <= 120
     THEN Count(trace, "stop_services") = 0 /\ Count(trace, "launch_socat") = 0
     ELSE /\ Count(trace, "launch_socat") = 1
          /\ Count(trace, "terminate") = 1
          /\ Count(trace, "launch_gps_dbus") <= 1
          /\ Count(SubSeq(trace, 1, Pos(trace, "launch_socat")), "stop_services") = 2
          /\ Count(trace, "stop_services") =
               (IF "launch_gps_dbus" \in Range(trace) /\ ~obs.start_ok THEN 3 ELSE 2)

\* C1 witness: the tick at elapsed 150 of scenario A restarted the services.
C1_Witness ==
  config = ScenarioA /\ TickReadBad /\ obs.ref_elapsed = 150 /\ obs.restarted

\* C2 (as claimed): a tick that sees a dead process does not restart unless
\* the continuous-unhealthy time already exceeds max_idle.
C2_DeathWaitsForGracePeriod ==
  (TickSawDead /\ obs.ref_elapsed <= max_idle) => ~obs.restarted

\* C2 (amended): a tick that sees a dead process (bridge not started, no
\* consumer handle, or consumer exited) restarts at once, whatever the
\* elapsed time, and does not invoke the probe.
C2_DeathRestartsAtOnce ==
  TickSawDead =>
     /\ obs.restarted
     /\ ~obs.probed
     /\ obs.elapsed = NONE
     /\ trace[1] = "stop_services"

\* C2 witness: the consumer had exited, within the grace period, and the tick
\* restarted.
C2_Witness ==
  /\ obs.op = "tick" /\ obs.pre_started /\ obs.pre_tracked /\ ~obs.pre_gps_alive
  /\ obs.ref_elapsed <= max_idle
  /\ obs.restarted

\* C3 (as claimed): after a restart by tick, both processes are started or
\* the supervisor has exited with a non-zero code.
C3_RestartLeavesBothRunning ==
  (obs.op = "tick" /\ obs.restarted) =>
     \/ socat_process_started /\ gps_dbus_process = "Popen"
     \/ pc = "exited" /\ exit_code # NONE /\ exit_code # 0

\* C3 (amended): after a restart by tick the supervisor is still running with
\* its timer armed, and it tracks either both processes (the start succeeded)
\* or neither (the start failed): never one without the other.
C3_RestartAllOrNothing ==
  (obs.op = "tick" /\ obs.restarted) =>
     /\ pc = "running" /\ exit_code = NONE /\ timer_armed
     /\ \/ obs.start_ok /\ socat_process_started /\ gps_dbus_process = "Popen"
        \/ ~obs.start_ok /\ ~socat_process_started /\ gps_dbus_process = "None"

\* C3 witness: a restart whose gps_dbus launch failed after socat was launched.
C3_Witness ==
  /\ obs.op = "tick" /\ obs.restarted /\ ~obs.start_ok
  /\ "launch_gps_dbus" \in Range(trace)
  /\ ~socat_process_started /\ pc = "running"

\* C4 (as claimed): a failed socat launch in the initial start makes the
\* supervisor exit non-zero without arming the timer or running the loop.
C4_InitBridgeFailureAborts ==
  hist.init_start = "socat_failed" =>
     /\ pc = "exited" /\ exit_code # NONE /\ exit_code # 0
     /\ ~timer_armed /\ ~is_running["mainloop"]

\* C4 (amended): a failed socat launch in the initial start does not stop the
\* supervisor: the timer is armed and the loop runs with nothing started, and
\* the first tick takes the not-started branch and retries the start (the
\* run ends only if mainloop.run() itself raises).
C4_InitBridgeFailureKeepsRunning ==
  (hist.init_start = "socat_failed" /\ obs.op # "loop_error") =>
     /\ pc = "running" /\ exit_code = NONE
     /\ timer_armed /\ is_running["mainloop"]
     /\ (obs.op = "construct" =>
           ~socat_process_started /\ gps_dbus_process = "None"
           /\ next_tick = clock + config.watchdog_check_interval)

\* C4 witness: after the failed initial socat launch the first tick retried.
C4_Witness ==
  /\ hist.init_start = "socat_failed"
  /\ obs.op = "tick" /\ obs.path = "not_started" /\ obs.start_ok

\* C5 (as claimed): once a termination signal has been handled in the run
\* loop, no further tick runs.
C5_NoTickAfterSignal ==
  ~(obs.op = "tick" /\ obs.after_signal)

\* C6 (as claimed): a tick that begins with the socat child dead and the
\* consumer alive reports the bridge dead and restarts both processes.
C6_BridgeDeathSeenByTick ==
  (obs.op = "tick" /\ ~obs.pre_socat_alive /\ obs.pre_tracked /\ obs.pre_gps_alive) =>
     obs.path = "not_started" /\ obs.restarted

\* C6 (amended): the liveness check reads only the started flag, which the
\* death of the socat child leaves set, so such a tick goes on to the probe;
\* a tick that finds the flag clear restarts both: stop, launch socat, and,
\* when that succeeds, sleep the settle delay and then launch gps_dbus.
C6_NotStartedRestartsBoth ==
  /\ (obs.op = "tick" /\ ~obs.pre_started) =>
        /\ obs.path = "not_started" /\ obs.restarted /\ ~obs.probed
        /\ trace[1] = "stop_services"
        /\ Count(trace, "launch_socat") = 1
        /\ LET b == Pos(trace, "launch_socat")
           IN \/ Len(trace) = b /\ ~obs.start_ok
              \/ /\ Len(trace) >= b + 2
                 /\ trace[b + 1] = "sleep"
                 /\ trace[b + 2] = "launch_gps_dbus"
                 /\ clock >= obs.at + SETTLE_DELAY
                 /\ (obs.start_ok <=> Len(trace) = b + 2)
  /\ (obs.op = "tick" /\ obs.pre_started /\ obs.pre_tracked /\ obs.pre_gps_alive
        /\ ~obs.pre_socat_alive) => obs.probed

\* C6 witness: a tick found the flag clear and brought both processes up.
C6_Witness ==
  obs.op = "tick" /\ ~obs.pre_started /\ obs.start_ok
  /\ socat_process_started /\ gps_dbus_process = "Popen"

\* C7: a Healthy reading at time t sets the time of last good data to t, and
\* while that reading is the latest reset no idle restart happens at a time
\* that is not strictly later than t + max_idle.
C7_HealthyResetsStreak ==
  /\ (obs.op = "tick" /\ obs.healthy) =>
        last_good_data_time = obs.at /\ ~obs.restarted
  /\ (TickReadBad /\ obs.ref_kind = "healthy" /\ obs.restarted) =>
        obs.ref_elapsed > max_idle

\* C7 witness: a Healthy reading arrived after at least two intervals
\* without good data.
C7_Witness ==
  /\ obs.op = "tick" /\ obs.healthy
  /\ obs.at - obs.pre_lgdt >= 2 * config.watchdog_check_interval
  /\ last_good_data_time = obs.at

\* C8 (as claimed), at scenario A's configuration: the restart decisions of
\* tick are those of a tracker that starts the grace period at the first
\* non-healthy reading.
C8_GraceFromFirstUnhealthy ==
  (config = ScenarioA /\ obs.op = "tick" /\ obs.probed) =>
     (obs.restarted <=> obs.ref_decision = "GracePeriodExpired")

\* C8 (amended): the grace period runs from the last reset of the time of
\* last good data (a Healthy reading, a successful start, or construction): a
\* probing tick restarts iff its reading is not healthy and more than
\* max_idle has passed since then, and a non-healthy reading records nothing.
C8_GraceFromLastGood ==
  (obs.op = "tick" /\ obs.probed) =>
     /\ obs.restarted <=> (~obs.healthy /\ obs.ref_elapsed > max_idle)
     /\ (~obs.healthy /\ ~obs.restarted) => last_good_data_time = obs.pre_lgdt

\* C8 witness: tick restarted although the first-unhealthy tracker continues.
C8_Witness ==
  /\ config = ScenarioA
  /\ obs.op = "tick" /\ obs.probed /\ obs.restarted /\ obs.ref_decision = "Continue"

\* C9 (as claimed): after an idle restart there is no further idle restart
\* until a Healthy reading has been seen.
C9_OneExpiryPerStreak ==
  ~(obs.op = "tick" /\ obs.again)

\* C9 (amended): a non-healthy tick that does not restart has elapsed
\* <= max_idle (so the first tick past it restarts); a further idle restart
\* without a Healthy reading in between happens only after a successful start
\* reset the timer and more than max_idle has passed since that start.
C9_ExpiryAgainAfterFreshTimer ==
  /\ (TickReadBad /\ ~obs.restarted) => obs.ref_elapsed <= max_idle
  /\ (obs.op = "tick" /\ obs.again) =>
        obs.ref_kind = "start" /\ obs.ref_elapsed > max_idle

\* C9 witness: a second idle restart with no Healthy reading since the first.
C9_Witness ==
  obs.op = "tick" /\ obs.again /\ obs.start_ok

\* C10: a probe failure (dbus-send unreachable, timed out, or unparsable)
\* reads as None; it never resets the time of last good data, and it
\* restarts exactly when more than max_idle has passed since the last reset.
C10_ProbeFailureIsIndeterminate ==
  (obs.op = "tick" /\ obs.probed /\ obs.reply \in {"exception", "timeout", "unparsable"}) =>
     /\ obs.count = NONE /\ ~obs.healthy
     /\ obs.restarted <=> obs.ref_elapsed > max_idle
     /\ ~obs.restarted => last_good_data_time = obs.pre_lgdt
     /\ (obs.restarted /\ ~obs.start_ok) => last_good_data_time = obs.pre_lgdt

\* C10 witness: a timed-out probe, after a failed one within the grace
\* period, triggered the restart.
C10_Witness ==
  /\ obs.op = "tick" /\ obs.probed /\ obs.reply = "timeout"
  /\ obs.restarted /\ obs.ref_elapsed > max_idle

\* C11 (as claimed): an exit with code 0 happens only after a termination
\* signal was handled and the final stop ran, and a run loop that ends
\* because mainloop.run() raised ends with a non-zero exit code.
C11_ExitZeroOnlyAfterSignal ==
  /\ (pc = "exited" /\ exit_code = 0) =>
        signalled /\ ~socat_process_started /\ gps_dbus_process = "None"
  /\ (pc = "exited" /\ obs.op = "loop_error") => exit_code # 0

\* the positions in q where a run of _stop_services begins
StopAt(q) == { i \in 1..Len(q) : q[i] = "stop_services" }

\* the kill commands issued by the _stop_services that begins at position i
SignalsOf(q, i) ==
  { q[j] : j \in { j \in (i+1)..Len(q) :
                     \A k \in (i+1)..j : q[k] \in { "terminate", "kill", "pkill" } } }

\* the stops that run on an already stopped controller: another stop ran
\* before them in the same handler and nothing was launched in between
SecondStops(q) ==
  { i \in StopAt(q) : \E h \in StopAt(q) : h < i /\ \A k \in h..i : q[k] # "launch_socat" }

\* C12 (as claimed): a stop that runs when the processes are already stopped
\* sends no kill signal of any kind: neither terminate/kill to the consumer
\* nor the pkill of the bridge cleanup.
C12_SecondStopSendsNothing ==
  \A i \in SecondStops(trace) : SignalsOf(trace, i) = { }

\* C12 (amended): a stop that runs on an already stopped controller raises
\* nothing, takes no time, leaves flag, handle and processes as they are and
\* sends neither terminate nor kill to the consumer, but it runs the pkill
\* sweep again; this holds for the second stop of every restart and for a
\* stop repeated on the result of any stop.
C12_SecondStopOnlySweeps ==
  /\ \A i \in SecondStops(trace) : SignalsOf(trace, i) = { "pkill" }
  /\ \A e \in StopEnvs(Cur), e2 \in StopEnvs(Cur) :
       LET s1 == stop_services(Cur, e)
           s2 == stop_services([ s1 EXCEPT !.trace = << >> ], e2)
       IN /\ s2.trace = << "stop_services", "pkill" >>
          /\ s2.now = s1.now
          /\ s2.socat_process_started = s1.socat_process_started
          /\ s2.gps_dbus_process = s1.gps_dbus_process
          /\ s2.gps_alive = s1.gps_alive
          /\ s2.last_good_data_time = s1.last_good_data_time
          /\ (~s1.socat_alive => ~s2.socat_alive)

\* a tick restarted live services: its first stop terminated the consumer,
\* the stop that begins _start_services found everything stopped
C12_Witness ==
  /\ obs.op = "tick" /\ obs.restarted /\ obs.pre_tracked /\ obs.pre_gps_alive
  /\ "terminate" \in Range(trace)
  /\ SecondStops(trace) # { }

\* C13 (as claimed): within one unhealthy streak the warning is logged at
\* most once, however many consecutive non-healthy ticks the streak has.
C13_OneWarningPerStreak ==
  obs.op = "tick" => obs.streak_warnings <= 1

\* C13 (amended): every tick that probes and reads no good data logs the
\* warning exactly once, before any restart it makes, and no other tick logs
\* it: a streak of n non-healthy ticks has n warnings.
C13_OneWarningPerBadTick ==
  obs.op = "tick" =>
    /\ TickReadBad => /\ Count(trace, "warn") = 1
                      /\ Pos(trace, "probe") < Pos(trace, "warn")
                      /\ obs.restarted => Pos(trace, "warn") < Pos(trace, "stop_services")
    /\ ~TickReadBad => Count(trace, "warn") = 0
    /\ obs.streak_warnings = obs.streak_ticks

\* the second non-healthy tick of a streak, still inside the grace period
C13_Witness ==
  /\ TickReadBad /\ ~obs.restarted /\ obs.path = "idle_ok"
  /\ obs.streak_ticks = MaxStreak
  /\ obs.streak_warnings = MaxStreak

\* C14: a tick looks at process liveness first: when the bridge flag is
\* clear or the consumer is untracked or has exited, the probe is not called
\* and the tick goes straight to the restart; in every other tick the probe
\* is called exactly once, as the first external call, before any stop or
\* launch of a restart.
C14_LivenessThenOneProbe ==
  obs.op = "tick" =>
    /\ TickSawDead => /\ Count(trace, "probe") = 0
                      /\ ~obs.probed
                      /\ obs.restarted
                      /\ trace[1] = "stop_services"
    /\ ~TickSawDead => /\ Count(trace, "probe") = 1
                       /\ trace[1] = "probe"
                       /\ obs.probed

\* a tick found the consumer exited and restarted without probing
C14_Witness ==
  /\ obs.op = "tick" /\ obs.path = "died"
  /\ obs.pre_started /\ obs.pre_tracked /\ ~obs.pre_gps_alive
  /\ "probe" \notin Range(trace)
  /\ "launch_socat" \in Range(trace)

\* C15: a restart made by a tick, whatever triggered it, is never partial:
\* it first stops both roles (the consumer, when it is running, is terminated,
\* then the bridge is swept with pkill), only then launches the bridge, and
\* launches the consumer only after the bridge; the consumer that runs after
\* the restart is never the instance from before it.
C15_RestartStopsBothThenLaunches ==
  /\ "launch_gps_dbus" \in Range(trace) =>
       /\ "launch_socat" \in Range(trace)
       /\ Pos(trace, "launch_socat") < Pos(trace, "launch_gps_dbus")
  /\ "launch_socat" \in Range(trace) =>
       /\ Count(trace, "launch_socat") = 1
       /\ 0 < Pos(trace, "stop_services")
       /\ Pos(trace, "stop_services") < Pos(trace, "pkill")
       /\ Pos(trace, "pkill") < Pos(trace, "launch_socat")
  /\ (obs.op = "tick" /\ obs.restarted) =>
       /\ (obs.pre_tracked /\ obs.pre_gps_alive) =>
            /\ Count(trace, "terminate") = 1
            /\ Pos(trace, "stop_services") < Pos(trace, "terminate")
            /\ Pos(trace, "terminate") < Pos(trace, "pkill")
       /\ obs.start_ok => "launch_gps_dbus" \in Range(trace)
       /\ ~obs.start_ok => (gps_dbus_process = "None" /\ ~gps_alive)
       /\ obs.path \in { "not_started", "died", "idle_expired" }

\* an idle restart of two live processes that brought both up again
C15_Witness ==
  /\ obs.op = "tick" /\ obs.path = "idle_expired" /\ obs.start_ok
  /\ obs.pre_started /\ obs.pre_tracked /\ obs.pre_gps_alive /\ obs.pre_socat_alive
  /\ "terminate" \in Range(trace)
  /\ "launch_gps_dbus" \in Range(trace)

\* C16: when the consumer launch fails after the bridge was launched, the
\* start ends with a stop (consumer has nothing to terminate, the pkill sweep
\* runs) and with the bridge-started flag cleared; no start, initial or in a
\* tick, reports failure with the flag still set.
C16_ConsumerFailureTearsDownBridge ==
  (obs.op \in { "construct", "tick" } /\ obs.restarted /\ ~obs.start_ok) =>
    /\ ~socat_process_started
    /\ gps_dbus_process = "None"
    /\ "launch_gps_dbus" \in Range(trace) =>
         LET n == Pos(trace, "launch_gps_dbus")
         IN /\ Pos(trace, "launch_socat") < n
            /\ Len(trace) = n + 2
            /\ trace[n + 1] = "stop_services"
            /\ trace[n + 2] = "pkill"

\* a tick's restart launched the bridge and failed to launch the consumer
C16_Witness ==
  /\ obs.op = "tick" /\ obs.restarted /\ ~obs.start_ok
  /\ "launch_gps_dbus" \in Range(trace)
  /\ ~socat_process_started

\* C17: a start that brings both processes up leaves the time of last good
\* data equal to the time the start completed; a non-healthy tick within
\* max_idle of that completion does not restart, and an idle restart whose
\* timer was last set by a start comes more than max_idle after it.
C17_FreshTimerAfterStart ==
  /\ (obs.op \in { "construct", "tick" } /\ obs.restarted /\ obs.start_ok) =>
        /\ last_good_data_time = clock
        /\ hist.ref_kind = "start"
        /\ hist.ref_last_good = clock
  /\ (TickReadBad /\ obs.ref_kind = "start") =>
        /\ obs.ref_elapsed <= max_idle => ~obs.restarted
        /\ obs.path = "idle_expired" => obs.ref_elapsed > max_idle
        /\ obs.elapsed = obs.ref_elapsed

\* an idle restart of an instance that a restart (not the initial start)
\* had brought up, with no healthy reading since
C17_Witness ==
  /\ TickReadBad /\ obs.path = "idle_expired"
  /\ obs.ref_kind = "start"
  /\ obs.ref_elapsed > max_idle
  /\ obs.pre_gps_alive /\ obs.pre_socat_alive

\* C18: a tick makes at most one start attempt on every path: at most one
\* launch of the bridge and at most one of the consumer, none at all when the
\* reading is healthy or the grace period has not run out, and exactly one
\* bridge launch, with no second try, when the start fails.
C18_OneStartAttemptPerTick ==
  obs.op = "tick" =>
    /\ Count(trace, "launch_socat") <= 1
    /\ Count(trace, "launch_gps_dbus") <= 1
    /\ Count(trace, "probe") <= 1
    /\ obs.path \in { "healthy", "idle_ok" } =>
         (Count(trace, "launch_socat") = 0 /\ Count(trace, "launch_gps_dbus") = 0)
    /\ obs.path \in { "not_started", "died", "idle_expired" } =>
         Count(trace, "launch_socat") = 1
    /\ (obs.restarted /\ ~obs.start_ok) =>
         /\ Count(trace, "launch_socat") = 1
         /\ ~socat_process_started
         /\ gps_dbus_process = "None"

\* a tick whose one start attempt failed at the bridge launch
C18_Witness ==
  /\ obs.op = "tick" /\ obs.restarted /\ ~obs.start_ok
  /\ Count(trace, "launch_socat") = 1
  /\ Count(trace, "launch_gps_dbus") = 0

\* C19: between handlers (before construction, at the top of every tick, and
\* after the final stop) the bridge-started flag is set exactly when a
\* consumer handle is tracked, and after the final stop both are clear.
C19_FlagIffHandle ==
  /\ socat_process_started <=> gps_dbus_process # "None"
  /\ obs.op = "loop_error" => (~socat_process_started /\ gps_dbus_process = "None")

\* the initial start failed at the consumer launch (both left clear), and a
\* later tick's restart brought both up
C19_Witness ==
  /\ hist.init_start = "gps_failed"
  /\ obs.op = "tick" /\ obs.path = "not_started" /\ obs.start_ok
  /\ ~obs.pre_started /\ ~obs.pre_tracked
  /\ socat_process_started /\ gps_dbus_process = "Popen"

\* C20: the watchdog callback returns True on every path, so after every
\* tick, one whose start failed included, the timer is armed and the
\* supervisor runs; after a failed initial start the supervisor runs with the
\* timer armed; a tick that finds the bridge flag clear (after a failed start)
\* does not probe and makes one full stop+start attempt, which ends with both
\* processes tracked exactly when both launches succeed.
C20_TimerSurvivesFailedStart ==
  /\ obs.op = "tick" => (timer_armed /\ pc = "running" /\ is_running["mainloop"])
  /\ (obs.op = "construct" /\ ~obs.start_ok) =>
        (timer_armed /\ pc = "running" /\ is_running["mainloop"])
  /\ (pc = "running" /\ next_tick <= MaxTime) => ENABLED Tick
  /\ (obs.op = "tick" /\ ~obs.pre_started) =>
        /\ obs.path = "not_started"
        /\ ~obs.probed
        /\ obs.restarted
        /\ trace[1] = "stop_services"
        /\ Count(trace, "launch_socat") = 1
        /\ obs.start_ok <=> obs.launches_ok
        /\ obs.launches_ok =>
             (socat_process_started /\ gps_dbus_process = "Popen")

\* a tick's restart failed, and the next tick, with both launches
\* succeeding, brought both processes up
C20_Witness ==
  /\ obs.op = "tick" /\ ~obs.pre_started /\ obs.launches_ok
  /\ hist.init_start = "ok"
  /\ socat_process_started /\ gps_dbus_process = "Popen"
  /\ timer_armed

====
